---- MODULE Spec2Model ----
(***************************************************************************)
(* GRest 2.1.1: a REST client (GRest), its endpoints (GRestEndpoint) and   *)
(* its requests (GRestRequest), as a state machine.                        *)
(*                                                                         *)
(* JavaScript values are tagged records: undefined, null, Str(s), Obj(o).  *)
(* Strings whose characters the code inspects (urls, endpoint names, query *)
(* strings) are sequences of one-character strings.  Objects are functions *)
(* from the keys they hold to values.  A configuration object lives in the *)
(* heap and is named by its index there: the request keeps the object it   *)
(* was given, not a copy.  The event loop is single-threaded: every        *)
(* handler, with all the callbacks it runs, is one atomic action.          *)
(***************************************************************************)
EXTENDS Integers, Sequences, FiniteSets, TLC

VARIABLES
    url,            \* GRest.url
    authorization,  \* GRest.authorization
    _headers,       \* GRest._headers
    _endpoints,     \* GRest._endpoints
    props,          \* the accessors endpoints() attached to the GRest object
    observers,      \* the callbacks subscribed with setObserver
    heap,           \* the configuration objects; a request holds one by reference
    reqs,           \* every GRestRequest constructed so far
    sent,           \* every transport call issued: axios(config), in order
    inflight,       \* the transport calls that have not settled yet
    ncb,            \* how many callbacks were handed to ok()/fail() so far
    last            \* what the last operation did (calls, messages, dispatches)

vars == <<url, authorization, _headers, _endpoints, props, observers, heap,
          reqs, sent, inflight, ncb, last>>

----------------------------------------------------------------------------
(* Bounds of the model *)

\* transport calls issued in one behaviour
MaxExec == 2
\* callbacks handed to ok()/fail() in one behaviour
MaxCb == 2
\* endpoint objects created in one behaviour
MaxEndpointObjs == 2
\* requests constructed in one behaviour
MaxReq == 2

----------------------------------------------------------------------------
(* JavaScript values *)

undefined == [t |-> "undefined"]
null == [t |-> "null"]
\* a string the code only copies and compares (a header value, a token)
Str(s) == [t |-> "string", s |-> s]
\* a string the code takes apart or appends to, as its characters
Chars(c) == [t |-> "string", c |-> c]
Obj(o) == [t |-> "object", o |-> o]

\* typeof v
TypeOf(v) == IF v.t = "null" THEN "object" ELSE v.t

\* !!v
Truthy(v) ==
    CASE v.t = "undefined" -> FALSE
      [] v.t = "null" -> FALSE
      [] v.t = "string" -> IF "s" \in DOMAIN v THEN v.s # "" ELSE v.c # <<>>
      [] OTHER -> TRUE

\* the empty object {}
EmptyObject == [k \in {} |-> undefined]

\* obj[k], undefined when obj has no such key
GetProp(obj, k) == IF k \in DOMAIN obj THEN obj[k] ELSE undefined

\* obj[k] = v
SetProp(obj, k, v) == [x \in DOMAIN obj \cup {k} |-> IF x = k THEN v ELSE obj[x]]

\* delete obj[k]
DeleteProp(obj, k) == [x \in DOMAIN obj \ {k} |-> obj[x]]

\* Object.assign(target, source): the keys of source overwrite those of target
ObjectAssign(target, source) ==
    [x \in DOMAIN target \cup DOMAIN source |->
        IF x \in DOMAIN source THEN source[x] ELSE target[x]]

----------------------------------------------------------------------------
(* Strings as character sequences *)

Slash == "/"

RECURSIVE StripTrailingSlashes(_)
StripTrailingSlashes(s) ==
    IF Len(s) > 0 /\ s[Len(s)] = Slash
    THEN StripTrailingSlashes(SubSeq(s, 1, Len(s) - 1))
    ELSE s

\* url.replace(/[\/]*$/, "/")
NormalizeUrl(u) == StripTrailingSlashes(u) \o <<Slash>>

LowerLetters == <<"a", "e", "g", "h", "i", "l", "n", "o", "r", "s", "t", "u">>
UpperLetters == <<"A", "E", "G", "H", "I", "L", "N", "O", "R", "S", "T", "U">>
Range(f) == {f[i] : i \in DOMAIN f}

\* the characters \W does not match, among those the model uses
IsWordChar(c) == c \in Range(LowerLetters) \cup Range(UpperLetters) \cup {"_", "1", "2"}

IndexOf(seq, c) == CHOOSE i \in DOMAIN seq : seq[i] = c

\* c.toLowerCase(), c.toUpperCase() of one character
ToLowerChar(c) == IF c \in Range(UpperLetters) THEN LowerLetters[IndexOf(UpperLetters, c)] ELSE c
ToUpperChar(c) == IF c \in Range(LowerLetters) THEN UpperLetters[IndexOf(LowerLetters, c)] ELSE c

ToLowerCase(s) == [i \in DOMAIN s |-> ToLowerChar(s[i])]

\* s.split(/\W/): the segments between single non-word characters
RECURSIVE SplitNonWord(_, _)
SplitNonWord(s, cur) ==
    IF s = <<>> THEN <<cur>>
    ELSE IF IsWordChar(Head(s)) THEN SplitNonWord(Tail(s), Append(cur, Head(s)))
    ELSE <<cur>> \o SplitNonWord(Tail(s), <<>>)

\* e.charAt(0).toUpperCase() + e.slice(1)
Capitalize(e) == IF e = <<>> THEN <<>> ELSE <<ToUpperChar(Head(e))>> \o Tail(e)

RECURSIVE JoinFrom(_, _)
JoinFrom(segs, i) ==
    IF i > Len(segs) THEN <<>>
    ELSE (IF i = 1 THEN segs[i] ELSE Capitalize(segs[i])) \o JoinFrom(segs, i + 1)

\* endpoint.toLowerCase().split(/\W/).map(...).join("")
CamelCase(name) == JoinFrom(SplitNonWord(ToLowerCase(name), <<>>), 1)

----------------------------------------------------------------------------
(* The transport (axios) and the observable (GObservable): collaborators *)

\* what axios resolves with for transport call e: the data names the call
Response(e) == [data |-> e, status |-> 200, headers |-> EmptyObject]

\* what axios rejects with for transport call e: without and with a response
NetworkError == [message |-> Str("timeout"), response |-> undefined]
HttpError(e) ==
    [message |-> Str("Request failed"),
     response |-> [t |-> "object", statusText |-> Str("Not Found"), status |-> 404,
                   data |-> e, headers |-> EmptyObject]]
TransportErrors(e) == {NetworkError, HttpError(e)}

\* the same, and errors whose message or status text is empty
BlankError == [message |-> Str(""), response |-> undefined]
BlankHttpError(e) ==
    [message |-> Str("Request failed"),
     response |-> [t |-> "object", statusText |-> Str(""), status |-> 500,
                   data |-> e, headers |-> EmptyObject]]
AllTransportErrors(e) == TransportErrors(e) \cup {BlankError, BlankHttpError(e)}

\* the GRest object, as the observable a request may hold
TheApi == [t |-> "object", o |-> "GRest"]

\* a subscribed callback whose handling of an "ok" message throws
FaultyObserver == "faulty"

\* GObservable.notify(msg): hands msg to every subscribed callback, each
\* called in turn by notify itself, so what a callback throws leaves notify;
\* at is what a callback finds in the request when it is handed msg
GObservableNotify(m, r, msg) ==
    [m EXCEPT !.msgs = Append(@, [to |-> observers, req |-> r, msg |-> msg,
                                  at |-> [_res |-> m.reqs[r]._res,
                                          _err |-> m.reqs[r]._err,
                                          _onOk |-> m.reqs[r]._onOk,
                                          _onErr |-> m.reqs[r]._onErr]]),
              !.thrown = @ \/ (FaultyObserver \in observers
                                /\ msg.status = "ok")]

----------------------------------------------------------------------------
(* GRestRequest.  m is the machine while a handler runs: the requests, the  *)
(* transport calls, and what the handler has done so far.                   *)

Machine ==
    [heap |-> heap, reqs |-> reqs, sent |-> sent, inflight |-> inflight, ncb |-> ncb,
     calls |-> <<>>, msgs |-> <<>>, disp |-> <<>>, thrown |-> FALSE, caught |-> FALSE]

\* the transport calls of request r that have not settled
InFlightOf(m, r) == {e \in m.inflight : m.sent[e].req = r}

\* _notify(status)
Notify(m, r, status) ==
    IF Truthy(m.reqs[r]._observable)
    THEN LET msg == SetProp(m.reqs[r]._obsMsg, "status", status)
         IN  GObservableNotify([m EXCEPT !.reqs[r]._obsMsg = msg], r, msg)
    ELSE m

\* axios(this._axios): transport call number Len(sent) + 1 is issued
Dispatch(m, r) ==
    LET e == Len(m.sent) + 1
    IN  [m EXCEPT !.sent = Append(@, [req |-> r, config |-> m.heap[m.reqs[r]._axios].v]),
                  !.inflight = @ \cup {e},
                  !.disp = Append(@, e)]

\* AgainOp, were the held result and error not cleared
AgainOpKeepsOutcome(m, r) ==
    LET m1 == Notify(m, r, "pending")
        m2 == [m1 EXCEPT !.reqs[r]._onOk = <<>>,
                         !.reqs[r]._onErr = <<>>,
                         !.reqs[r].solo = InFlightOf(m, r) = {}]
    IN  Dispatch(m2, r)

\* again(), up to the return: the handlers run when the transport settles.
\* solo is history, not a field of the code: whether every earlier transport
\* call of the request had settled when again() was called
AgainOp(m, r) ==
    LET m1 == Notify(m, r, "pending")
        m2 == [m1 EXCEPT !.reqs[r]._res = undefined,
                         !.reqs[r]._err = undefined,
                         !.reqs[r]._onOk = <<>>,
                         !.reqs[r]._onErr = <<>>,
                         !.reqs[r].solo = InFlightOf(m, r) = {}]
    IN  Dispatch(m2, r)

\* the first and the latest transport call of request r
ExecsOf(log, r) == {e \in DOMAIN log : log[e].req = r}
FirstExec(log, r) == CHOOSE e \in ExecsOf(log, r) : \A f \in ExecsOf(log, r) : e <= f
LatestExec(log, r) == CHOOSE e \in ExecsOf(log, r) : \A f \in ExecsOf(log, r) : f <= e

\* a callback handed to ok() (on = "ok") or fail() (on = "fail"): what it
\* does when invoked (kind); as history, the transport call of the request
\* that was the latest when it was handed over (exec), that call's solo,
\* and how many times the callback has been called
NewCb(m, r, on, kind) ==
    [id |-> m.ncb + 1, on |-> on, kind |-> kind,
     exec |-> LatestExec(m.sent, r), solo |-> m.reqs[r].solo, called |-> 0]

\* as history, the callback id is counted as called once more wherever it
\* is in queue q
RECURSIVE Called(_, _)
Called(q, id) ==
    IF q = <<>> THEN <<>>
    ELSE <<IF Head(q).id = id THEN [Head(q) EXCEPT !.called = @ + 1] ELSE Head(q)>>
         \o Called(Tail(q), id)

CbKinds == {"plain", "throws", "again"}

RECURSIVE InvokeCb(_, _, _, _, _)
RECURSIVE OkOp(_, _, _)

\* fn(...args): the callback runs; a "throws" callback throws, an "again"
\* callback runs request.again().ok(cb2) on the request it is attached to
InvokeCb(m, r, cb, args, how) ==
    LET m1 == [m EXCEPT !.calls = Append(@, [cb |-> cb, args |-> args, how |-> how]),
                        !.reqs[r]._onOk = Called(@, cb.id),
                        !.reqs[r]._onErr = Called(@, cb.id)]
    IN  CASE cb.kind = "plain" -> m1
          [] cb.kind = "throws" -> [m1 EXCEPT !.thrown = TRUE]
          [] cb.kind = "again" -> OkOp(AgainOp(m1, r), r, "plain")

\* OkOp, were the callback queued whether or not a result is held
OkOpAlwaysQueues(m, r, kind) ==
    [m EXCEPT !.ncb = @ + 1, !.reqs[r]._onOk = Append(@, NewCb(m, r, "ok", kind))]

\* ok(fn)
OkOp(m, r, kind) ==
    LET res == m.reqs[r]._res
        cb == NewCb(m, r, "ok", kind)
        m1 == [m EXCEPT !.ncb = @ + 1]
    IN  IF res # undefined
        THEN InvokeCb(m1, r, cb, res, "sync")
        ELSE [m1 EXCEPT !.reqs[r]._onOk = Append(@, cb)]

\* fail(fn)
FailOp(m, r, kind) ==
    LET err == m.reqs[r]._err
        cb == NewCb(m, r, "fail", kind)
        m1 == [m EXCEPT !.ncb = @ + 1]
    IN  IF err # undefined
        THEN InvokeCb(m1, r, cb, <<err>>, "sync")
        ELSE [m1 EXCEPT !.reqs[r]._onErr = Append(@, cb)]

\* ForEach, were the queue walked from its end
RECURSIVE ForEachBackwards(_, _, _, _)
ForEachBackwards(m, r, queue, args) ==
    IF queue = <<>> \/ m.thrown THEN m
    ELSE ForEachBackwards(InvokeCb(m, r, queue[Len(queue)], args, "queued"), r,
                          SubSeq(queue, 1, Len(queue) - 1), args)

\* queue.forEach(f => f(...args)): over the array as it was when forEach
\* began; a throw ends the loop
RECURSIVE ForEach(_, _, _, _)
ForEach(m, r, queue, args) ==
    IF queue = <<>> \/ m.thrown THEN m
    ELSE ForEach(InvokeCb(m, r, Head(queue), args, "queued"), r, Tail(queue), args)

\* the .then(r => ...) handler of again()
ThenHandler(m, r, e) ==
    LET resp == Response(e)
        res == <<resp.data, [status |-> resp.status, headers |-> resp.headers]>>
        m1 == [m EXCEPT !.reqs[r]._res = res]
        m2 == ForEach(m1, r, m1.reqs[r]._onOk, res)
        \* try { ... } catch (e) { console.log(e) }
        m3 == [m2 EXCEPT !.thrown = FALSE, !.caught = m2.thrown]
        m4 == [m3 EXCEPT !.reqs[r]._onOk = <<>>]
    IN  Notify(m4, r, "ok")

\* NormalizeError, were the messages passed on as they come
NormalizeErrorAsIs(e) ==
    IF Truthy(e.response)
    THEN [message |-> e.response.statusText, data |-> e.response.data,
          status |-> e.response.status, headers |-> e.response.headers]
    ELSE [message |-> e.message]

\* err, as the .catch handler builds it from what was thrown
NormalizeError(e) ==
    LET err == [message |-> IF Truthy(e.message) THEN e.message ELSE Str("Network Error")]
        response == e.response
    IN  IF Truthy(response)
        THEN [message |-> IF Truthy(response.statusText) THEN response.statusText
                          ELSE Str("Error"),
              data |-> response.data,
              status |-> response.status,
              headers |-> response.headers]
        ELSE err

\* the .catch(e => ...) handler of again()
CatchHandler(m, r, e) ==
    LET err == NormalizeError(e)
        m1 == [m EXCEPT !.reqs[r]._err = err]
        m2 == ForEach(m1, r, m1.reqs[r]._onErr, <<err>>)
    IN  IF m2.thrown THEN m2
        ELSE Notify([m2 EXCEPT !.reqs[r]._onErr = <<>>], r, "fail")

\* an object literal is evaluated, by the caller or by the library
Alloc(m, by, obj) == [m EXCEPT !.heap = Append(@, [by |-> by, v |-> obj])]

\* new GRestRequest(axiosConfig, observable); axiosConfig is a reference
NewRequest(m, axiosConfig, observable) ==
    LET r == Len(m.reqs) + 1
        endpoint == GetProp(m.heap[axiosConfig].v, "endpoint")
        req == [_axios |-> axiosConfig,
                _observable |-> observable,
                _obsMsg |-> [endpoint |-> IF Truthy(endpoint) THEN endpoint ELSE null,
                             method |-> GetProp(m.heap[axiosConfig].v, "method")],
                _res |-> undefined, _err |-> undefined,
                _onOk |-> <<>>, _onErr |-> <<>>, solo |-> TRUE]
    IN  AgainOp([m EXCEPT !.reqs = Append(@, req)], r)

----------------------------------------------------------------------------
(* GRest and GRestEndpoint *)

\* new GRestEndpoint(name, api); oid tells one endpoint object from another
GRestEndpoint(name, apiUrl, oid) ==
    [t |-> "object", name |-> Chars(name), _api |-> TheApi,
     _url |-> Chars(apiUrl \o name \o <<Slash>>), oid |-> oid]

\* a method of the class, as a value
Function == [t |-> "function"]

\* the GRest object's own fields and its class's methods
Url == <<"u", "r", "l">>
OwnFields == {Url, <<"a", "u", "t", "h", "o", "r", "i", "z", "a", "t", "i", "o", "n">>,
              <<"_", "e", "n", "d", "p", "o", "i", "n", "t", "s">>,
              <<"_", "h", "e", "a", "d", "e", "r", "s">>}
Methods == {<<"e", "n", "d", "p", "o", "i", "n", "t", "s">>,
            <<"h", "e", "a", "d", "e", "r", "s">>,
            <<"r", "e", "l", "e", "a", "s", "e">>}

\* _this[key]: an endpoint attached under key, else a field or a method of
\* the GRest object (those GObservable adds aside)
ThisProp(p, key) ==
    IF key \in DOMAIN p THEN p[key]
    ELSE IF key = Url THEN Chars(url)
    ELSE IF key \in OwnFields THEN
         (IF key[1] = "a" THEN authorization ELSE Obj(EmptyObject))
    ELSE IF key \in Methods THEN Function
    ELSE undefined

\* Array.from(new Set(list)): the first occurrence of each element, in order
RECURSIVE Unique(_)
Unique(list) ==
    IF list = <<>> THEN <<>>
    ELSE LET init == Unique(SubSeq(list, 1, Len(list) - 1))
             x == list[Len(list)]
         IN  IF x \in Range(init) THEN init ELSE Append(init, x)

\* how many endpoint objects p holds the newest of
NextOid(p) ==
    LET oids == {p[k].oid : k \in DOMAIN p}
    IN  IF oids = {} THEN 1 ELSE 1 + CHOOSE o \in oids : \A q \in oids : q <= o

\* list.forEach(endpoint => ...) of endpoints(): from the i-th name on
RECURSIVE AttachFrom(_, _, _)
AttachFrom(p, list, i) ==
    IF i > Len(list) THEN p
    ELSE IF Truthy(ThisProp(p, list[i])) THEN AttachFrom(p, list, i + 1)
    ELSE AttachFrom(
             SetProp(p, CamelCase(list[i]), GRestEndpoint(list[i], url, NextOid(p))),
             list, i + 1)

\* HttpConfig, were the authorization field set over any header
HttpConfigAuthFieldWins(ep, axiosCnf, queryString) ==
    LET given == GetProp(axiosCnf, "headers")
        headers == ObjectAssign(ObjectAssign(EmptyObject, _headers),
                                IF Truthy(given) THEN given.o ELSE EmptyObject)
        h1 == SetProp(headers, "X-Requested-With", Str("XMLHttpRequest"))
        h2 == IF Truthy(authorization) THEN SetProp(h1, "Authorization", authorization)
              ELSE h1
        c2 == SetProp(SetProp(axiosCnf, "headers", Obj(h2)), "url", ep._url)
        c3 == IF TypeOf(queryString) = "object" THEN SetProp(c2, "params", queryString)
              ELSE IF TypeOf(queryString) # "undefined"
                   THEN SetProp(c2, "url", Chars(c2["url"].c \o queryString.c))
                   ELSE c2
    IN  SetProp(c3, "endpoint", ep.name)

\* the configuration http() hands to the request
HttpConfig(ep, axiosCnf, queryString) ==
    LET auth == authorization
        given == GetProp(axiosCnf, "headers")
        headers == ObjectAssign(ObjectAssign(EmptyObject, _headers),
                                IF Truthy(given) THEN given.o ELSE EmptyObject)
        h1 == SetProp(headers, "X-Requested-With", Str("XMLHttpRequest"))
        h2 == IF Truthy(auth) /\ ~Truthy(GetProp(h1, "Authorization"))
              THEN SetProp(h1, "Authorization", auth)
              ELSE h1
        c1 == SetProp(axiosCnf, "headers", Obj(h2))
        c2 == SetProp(c1, "url", ep._url)
        qsType == TypeOf(queryString)
        c3 == IF qsType = "object" THEN SetProp(c2, "params", queryString)
              ELSE IF qsType # "undefined"
                   THEN SetProp(c2, "url", Chars(c2["url"].c \o queryString.c))
                   ELSE c2
    IN  SetProp(c3, "endpoint", ep.name)

\* HttpGlobals, were the headers merged into the object api.headers() returns
HttpGlobalsAssignedInPlace(axiosCnf) ==
    LET given == GetProp(axiosCnf, "headers")
    IN  SetProp(ObjectAssign(_headers, IF Truthy(given) THEN given.o ELSE EmptyObject),
                "X-Requested-With", Str("XMLHttpRequest"))

\* the client's _headers after http(axiosCnf): Object.assign writes to a new
\* object, the one api.headers() returns is only read
HttpGlobals(axiosCnf) == _headers

\* http(axiosCnf, queryString): the object axiosCnf refers to is filled in
\* where it is, and the request built on it is dispatched
HttpOp(m, ep, axiosCnf, queryString) ==
    LET m1 == [m EXCEPT !.heap[axiosCnf].v = HttpConfig(ep, @, queryString)]
    IN  NewRequest(m1, axiosCnf, GetProp(ep, "api"))

\* this.http({...}, queryString), on a new object
HttpOnNew(m, ep, obj, queryString) ==
    LET m1 == Alloc(m, "library", obj)
    IN  HttpOp(m1, ep, Len(m1.heap), queryString)

\* _getDel(method, queryString)
GetDelOp(m, ep, method, queryString) ==
    HttpOnNew(m, ep, [method |-> Str(method)], queryString)

\* _postPut(method, queryStringOrData, data)
PostPutOp(m, ep, method, queryStringOrData, data) ==
    IF ~Truthy(data)
    THEN HttpOnNew(m, ep, [method |-> Str(method), data |-> queryStringOrData], null)
    ELSE HttpOnNew(m, ep, [method |-> Str(method), data |-> data], queryStringOrData)

----------------------------------------------------------------------------
(* The actions: one per operation of the library and per transport event *)

NoRequest == [t |-> "none"]

\* the client as it is: what an operation finds before it acts
Api == [url |-> url, authorization |-> authorization, _headers |-> _headers,
        _endpoints |-> _endpoints, props |-> props]

\* the arguments an operation was called with
Args(a) == [t |-> "args"] @@ a

\* the machine's state becomes the next state; last records what op did
Commit(m, op, r, e, arg) ==
    /\ Len(m.reqs) <= MaxReq
    /\ Len(m.sent) <= MaxExec
    /\ m.ncb <= MaxCb
    /\ heap' = m.heap
    /\ reqs' = m.reqs
    /\ sent' = m.sent
    /\ inflight' = m.inflight
    /\ ncb' = m.ncb
    /\ last' = [op |-> op, req |-> r, exec |-> e, arg |-> arg, api0 |-> Api,
                pre |-> IF r \in DOMAIN reqs THEN reqs[r] ELSE NoRequest, ncb0 |-> ncb,
                calls |-> m.calls, msgs |-> m.msgs, disp |-> m.disp,
                thrown |-> m.thrown, caught |-> m.caught]

\* last, after an operation of the client that touches no request
ClientOp(op, arg) ==
    [op |-> op, req |-> 0, exec |-> 0, arg |-> arg, api0 |-> Api, pre |-> NoRequest,
     ncb0 |-> ncb,
     calls |-> <<>>, msgs |-> <<>>, disp |-> <<>>, thrown |-> FALSE, caught |-> FALSE]

ClientUnchanged == UNCHANGED <<url, authorization, _headers, _endpoints, props, observers>>

\* what an endpoint call given axiosCnf leaves of the client
AfterHttp(axiosCnf) ==
    /\ _headers' = HttpGlobals(axiosCnf)
    /\ UNCHANGED <<url, authorization, _endpoints, props, observers>>

\* headers(map), were the null and undefined entries kept
HeadersKeepsNull(map) ==
    /\ _headers' = ObjectAssign(_headers, map)
    /\ last' = ClientOp("headers", Args([map |-> map]))
    /\ UNCHANGED <<url, authorization, _endpoints, props, observers, heap, reqs, sent, inflight, ncb>>

\* api.endpoints(list)
Endpoints(list) ==
    /\ _endpoints' = Unique(_endpoints \o list)
    /\ props' = AttachFrom(props, list, 1)
    /\ NextOid(props') <= MaxEndpointObjs + 1
    /\ last' = ClientOp("endpoints", Args([list |-> list]))
    /\ UNCHANGED <<url, authorization, _headers, observers, heap, reqs, sent, inflight, ncb>>

\* api.headers(map)
Headers(map) ==
    /\ LET merged == ObjectAssign(_headers, map)
           kept == {k \in DOMAIN merged : merged[k].t \notin {"undefined", "null"}}
       IN  _headers' = [k \in kept |-> merged[k]]
    /\ last' = ClientOp("headers", Args([map |-> map]))
    /\ UNCHANGED <<url, authorization, _endpoints, props, observers, heap, reqs, sent, inflight, ncb>>

\* api.authorization = value
SetAuthorization(value) ==
    /\ authorization' = value
    /\ last' = ClientOp("authorization", Args([value |-> value]))
    /\ UNCHANGED <<url, _headers, _endpoints, props, observers, heap, reqs, sent, inflight, ncb>>

\* api.setObserver(id, callback)
SetObserver(id) ==
    /\ observers' = observers \cup {id}
    /\ last' = ClientOp("setObserver", Args([id |-> id]))
    /\ UNCHANGED <<url, authorization, _headers, _endpoints, props, heap, reqs, sent, inflight, ncb>>

\* the configuration objects the caller made, and so can pass again
CallerObjects == {i \in DOMAIN heap : heap[i].by = "caller"}

\* api[key].http({...}, queryString): the caller passes a new object
Http(key, obj, queryString) ==
    /\ key \in DOMAIN props
    /\ LET m == Alloc(Machine, "caller", obj)
       IN  Commit(HttpOp(m, props[key], Len(m.heap), queryString),
                  "http", Len(reqs) + 1, 0, Obj(obj) @@ [q |-> queryString])
    /\ AfterHttp(obj)

\* api[key].http(axiosCnf, queryString): the caller passes an object it has
\* passed before
HttpSameObject(key, axiosCnf, queryString) ==
    /\ key \in DOMAIN props
    /\ axiosCnf \in CallerObjects
    /\ Commit(HttpOp(Machine, props[key], axiosCnf, queryString),
              "http", Len(reqs) + 1, 0, Obj(heap[axiosCnf].v) @@ [q |-> queryString])
    /\ AfterHttp(heap[axiosCnf].v)

\* api[key].get(queryString)
Get(key, queryString) ==
    /\ key \in DOMAIN props
    /\ Commit(GetDelOp(Machine, props[key], "get", queryString),
              "get", Len(reqs) + 1, 0, Args([q |-> queryString]))
    /\ AfterHttp([method |-> Str("get")])

\* api[key].delete(queryString)
Delete(key, queryString) ==
    /\ key \in DOMAIN props
    /\ Commit(GetDelOp(Machine, props[key], "delete", queryString),
              "delete", Len(reqs) + 1, 0, Args([q |-> queryString]))
    /\ AfterHttp([method |-> Str("delete")])

\* api[key].post(queryStringOrData, data)
Post(key, queryStringOrData, data) ==
    /\ key \in DOMAIN props
    /\ Commit(PostPutOp(Machine, props[key], "post", queryStringOrData, data),
              "post", Len(reqs) + 1, 0, Args([a |-> queryStringOrData, d |-> data]))
    /\ AfterHttp([method |-> Str("post"), data |-> data])

\* api[key].put(queryStringOrData, data)
Put(key, queryStringOrData, data) ==
    /\ key \in DOMAIN props
    /\ Commit(PostPutOp(Machine, props[key], "put", queryStringOrData, data),
              "put", Len(reqs) + 1, 0, Args([a |-> queryStringOrData, d |-> data]))
    /\ AfterHttp([method |-> Str("put"), data |-> data])

\* new GRestRequest(axiosConfig, api): a request built outside any endpoint
Construct(obj) ==
    /\ LET m == Alloc(Machine, "caller", obj)
       IN  Commit(NewRequest(m, Len(m.heap), TheApi), "new", Len(reqs) + 1, 0, Obj(obj))
    /\ ClientUnchanged

\* request.again()
Again(r) ==
    /\ r \in DOMAIN reqs
    /\ Commit(AgainOp(Machine, r), "again", r, 0, undefined)
    /\ ClientUnchanged

\* request.ok(fn)
Ok(r, kind) ==
    /\ r \in DOMAIN reqs
    /\ Commit(OkOp(Machine, r, kind), "ok", r, 0, Str(kind))
    /\ ClientUnchanged

\* request.fail(fn)
Fail(r, kind) ==
    /\ r \in DOMAIN reqs
    /\ Commit(FailOp(Machine, r, kind), "fail", r, 0, Str(kind))
    /\ ClientUnchanged

\* the promise of transport call e settles
Settling(e) == [Machine EXCEPT !.inflight = @ \ {e}]

\* what is thrown when the .then handler throws
HandlerError == [message |-> Str("thrown"), response |-> undefined]

\* transport call e resolves: .then(...), and .catch(...) if that throws
Resolve(e) ==
    /\ e \in inflight
    /\ LET r == sent[e].req
           m == ThenHandler(Settling(e), r, e)
       IN  Commit(IF m.thrown
                  THEN CatchHandler([m EXCEPT !.thrown = FALSE], r, HandlerError)
                  ELSE m,
                  "resolve", r, e, undefined)
    /\ ClientUnchanged

\* transport call e rejects with err: .catch(...)
Reject(e, err) ==
    /\ e \in inflight
    /\ LET r == sent[e].req
       IN  Commit(CatchHandler(Settling(e), r, err), "reject", r, e, Obj(err))
    /\ ClientUnchanged

----------------------------------------------------------------------------
(* The inputs the model draws from *)

BaseUrl == <<"h", "t", "t", "p", ":", "/", "/", "a", ".", "i", "o">>
Users == <<"u", "s", "e", "r", "s">>
AuthLogin == <<"a", "u", "t", "h", "/", "l", "o", "g", "i", "n">>
ObserverIds == {"ui"}
Body == Obj([email |-> Str("a@b")])

NoOp(api) ==
    [op |-> "construct", req |-> 0, exec |-> 0, arg |-> undefined, api0 |-> api,
     pre |-> NoRequest, ncb0 |-> 0, calls |-> <<>>, msgs |-> <<>>, disp |-> <<>>, thrown |-> FALSE,
     caught |-> FALSE]

\* new GRest(u, auth)
Constructed(u, auth) ==
    /\ url = NormalizeUrl(u)
    /\ authorization = auth
    /\ _endpoints = <<>>
    /\ _headers = EmptyObject
    /\ props = EmptyObject
    /\ observers = {}
    /\ heap = <<>>
    /\ reqs = <<>>
    /\ sent = <<>>
    /\ inflight = {}
    /\ ncb = 0
    /\ last = NoOp(Api)

\* new GRest(u, auth).endpoints(list), with observer id subscribed
Ready(u, auth, list, id) ==
    /\ url = NormalizeUrl(u)
    /\ authorization = auth
    /\ _endpoints = Unique(list)
    /\ _headers = EmptyObject
    /\ props = AttachFrom(EmptyObject, list, 1)
    /\ observers = {id}
    /\ heap = <<>>
    /\ reqs = <<>>
    /\ sent = <<>>
    /\ inflight = {}
    /\ ncb = 0
    /\ last = NoOp(Api)

----------------------------------------------------------------------------
(* Spec: the life of one request and its callbacks, on a client whose       *)
(* endpoints are registered and whose observer is subscribed.  Requests     *)
(* share no state, so the caller makes one here; SpecObs and SpecCfg make   *)
(* several.                                                                 *)

Init == Ready(BaseUrl, undefined, <<Users, AuthLogin>>, "ui")

Next ==
    \/ reqs = <<>> /\ Get(CamelCase(Users), undefined)
    \/ reqs = <<>> /\ Construct([method |-> Str("get"), url |-> Chars(BaseUrl)])
    \/ \E r \in DOMAIN reqs : Again(r)
    \/ \E r \in DOMAIN reqs, kind \in CbKinds : Ok(r, kind)
    \/ \E r \in DOMAIN reqs, kind \in CbKinds : Fail(r, kind)
    \/ \E e \in inflight : Resolve(e)
    \/ \E e \in inflight : \E err \in AllTransportErrors(e) : Reject(e, err)

Spec == Init /\ [][Next]_vars

----------------------------------------------------------------------------
(* SpecObs: a client from its construction on, its endpoints, its observers *)
(* and the requests made through them                                       *)

InitObs == Constructed(BaseUrl, undefined)

NextObs ==
    \/ Endpoints(<<Users, AuthLogin>>)
    \/ \E id \in ObserverIds : SetObserver(id)
    \/ \E key \in DOMAIN props : Get(key, undefined)
    \/ \E key \in DOMAIN props : Post(key, Body, undefined)
    \/ \E r \in DOMAIN reqs : Again(r)
    \/ \E e \in inflight : Resolve(e)
    \/ \E e \in inflight : \E err \in TransportErrors(e) : Reject(e, err)

SpecObs == InitObs /\ [][NextObs]_vars

----------------------------------------------------------------------------
(* SpecCfg: the client's headers and authorization change while requests    *)
(* are built, dispatched and dispatched again                               *)

AuthValues == {null, Str("Bearer X")}

\* what headers(map) is called with
HeaderMaps ==
    {[k \in {"Authorization"} |-> Str("global")],
     [k \in {"Authorization"} |-> null],
     [k \in {"Accept-version"} |-> Str("3.2")]}

\* what http(axiosCnf) is called with
CallerConfigs ==
    {[method |-> Str("post"), headers |-> Obj([k \in {"Authorization"} |-> Str("abc")])],
     [method |-> Str("post"),
      headers |-> Obj([k \in {"Accept-version", "X-Requested-With"} |->
                          IF k = "Accept-version" THEN Str("4.0") ELSE Str("Hello world")])]}

InitCfg == Constructed(BaseUrl, undefined)

NextCfg ==
    \/ Endpoints(<<Users>>)
    \/ \E value \in AuthValues : SetAuthorization(value)
    \/ \E map \in HeaderMaps : Headers(map)
    \/ \E key \in DOMAIN props, cnf \in CallerConfigs : Http(key, cnf, undefined)
    \/ \E key \in DOMAIN props, cnf \in CallerObjects : HttpSameObject(key, cnf, undefined)
    \/ \E key \in DOMAIN props : Get(key, undefined)
    \/ \E r \in DOMAIN reqs : Again(r)

SpecCfg == InitCfg /\ [][NextCfg]_vars

----------------------------------------------------------------------------
(* SpecEp: endpoints are registered, and registered again, on a client      *)
(* built from a base URL with or without trailing slashes.  No name has a   *)
(* field or method of the client as its key without being that name.       *)

BaseUrls == {BaseUrl, BaseUrl \o <<Slash>>, BaseUrl \o <<Slash, Slash>>}

UpperUsers == <<"U", "s", "e", "r", "s">>
AuthDashLogin == <<"a", "u", "t", "h", "-", "l", "o", "g", "i", "n">>

\* what endpoints(list) is called with
EndpointLists ==
    {<<Users>>, <<UpperUsers>>, <<AuthLogin>>, <<AuthDashLogin>>, <<Url>>,
     <<Users, AuthLogin>>, <<AuthLogin, AuthDashLogin>>}

InitEp == \E u \in BaseUrls : Constructed(u, undefined)

NextEp ==
    \/ \E list \in EndpointLists : Endpoints(list)
    \/ \E key \in DOMAIN props : Get(key, undefined)

SpecEp == InitEp /\ [][NextEp]_vars

----------------------------------------------------------------------------
(* SpecArgs: the endpoint methods are called with every kind of argument:   *)
(* bodies, query objects, ids, empty and null values, or none               *)

\* a resource id, or a query string
Id == Chars(<<"1", "2">>)
EmptyString == Chars(<<>>)
Query == Obj([foo |-> Str("bar")])

\* what get/delete are called with
QueryArgs == {undefined, Id, Query, Obj(EmptyObject)}
\* what post/put are called with, first and second
FirstArgs == {Body, Id}
SecondArgs == {undefined, Body, EmptyString, null}
\* what http is called with, first and second
HttpConfigs ==
    {[method |-> Str("get")],
     [method |-> Str("post"), url |-> Chars(<<"h", "t", "t", "p", ":", "/", "/", "o", ".", "i", "o">>),
      params |-> Query]}
HttpArgs == {undefined, null, Id, EmptyString, Query, Obj(EmptyObject)}

InitArgs == Ready(BaseUrl, undefined, <<AuthLogin>>, "ui")

NextArgs ==
    \/ \E key \in DOMAIN props, q \in QueryArgs : Get(key, q)
    \/ \E key \in DOMAIN props, q \in QueryArgs : Delete(key, q)
    \/ \E key \in DOMAIN props, a \in FirstArgs, d \in SecondArgs : Post(key, a, d)
    \/ \E key \in DOMAIN props, a \in FirstArgs, d \in SecondArgs : Put(key, a, d)
    \/ \E key \in DOMAIN props, cnf \in HttpConfigs, q \in HttpArgs : Http(key, cnf, q)

SpecArgs == InitArgs /\ [][NextArgs]_vars

----------------------------------------------------------------------------
(* SpecSub: callbacks are subscribed to the client, one of them faulty, and *)
(* a request built on the client is dispatched, settled and dispatched again *)

InitSub == Constructed(BaseUrl, undefined)

NextSub ==
    \/ \E id \in ObserverIds \cup {FaultyObserver} : SetObserver(id)
    \/ reqs = <<>> /\ Construct([method |-> Str("get"), url |-> Chars(BaseUrl)])
    \/ \E r \in DOMAIN reqs : Again(r)
    \/ \E r \in DOMAIN reqs, kind \in CbKinds : Ok(r, kind)
    \/ \E r \in DOMAIN reqs, kind \in CbKinds : Fail(r, kind)
    \/ \E e \in inflight : Resolve(e)
    \/ \E e \in inflight : \E err \in TransportErrors(e) : Reject(e, err)

SpecSub == InitSub /\ [][NextSub]_vars

----------------------------------------------------------------------------
(* What the claims speak of *)

\* the request the last operation was about, as it is now
LastReq == reqs[last.req]

\* the configuration request r holds, as it is now
ConfigOf(r) == heap[reqs[r]._axios].v

\* the calls the last operation made to the callbacks of a queue it drained
QueuedCalls == SelectSeq(last.calls, LAMBDA c : c.how = "queued")

\* the callbacks called, in the order of the calls
CalledCbs(calls) == [i \in DOMAIN calls |-> calls[i].cb]

\* the result the .then handler stores for transport call e
ResultOf(e) == <<Response(e).data, [status |-> Response(e).status, headers |-> Response(e).headers]>>

\* the last operation delivered, to every subscribed observer, a message of
\* this status that carries the request's endpoint name and method
Delivered(status) ==
    \E i \in DOMAIN last.msgs :
        /\ last.msgs[i].to = observers
        /\ last.msgs[i].msg = [endpoint |-> IF "endpoint" \in DOMAIN ConfigOf(last.req)
                                            THEN ConfigOf(last.req)["endpoint"] ELSE null,
                               method |-> ConfigOf(last.req)["method"],
                               status |-> status]

----------------------------------------------------------------------------
(* C1 *)

\* C1: an observer subscribed on the client receives the lifecycle messages
\* of every request made through an endpoint: "pending" when it is
\* dispatched (by get/post/... or again()), then "ok" or "fail" when the
\* transport settles, each with the endpoint's raw name and the method.
C1_ObserverReceivesLifecycle ==
    (observers # {} /\ last.req # 0 /\ LastReq._obsMsg.endpoint # null) =>
        /\ last.op \in {"get", "post", "again"} => Delivered("pending")
        /\ last.op = "resolve" => Delivered("ok")
        /\ last.op = "reject" => Delivered("fail")

----------------------------------------------------------------------------
(* C2 *)

\* C2: ok(cb) on a request that holds a result calls cb at once, exactly
\* once, with the held (data, metadata), and queues nothing; fail(cb) on a
\* request that holds an error does the same with the error.  No transport
\* call is issued, but the one a callback that itself calls again() makes.
\* A request whose latest transport call resolved holds that call's result,
\* one whose latest call failed holds its error.
C2_CachedResultIsReplayed ==
    /\ (last.op = "ok" /\ last.pre._res # undefined) =>
          /\ Len(last.calls) = 1
          /\ last.calls[1].cb.id = last.ncb0 + 1
          /\ last.calls[1].args = last.pre._res
          /\ last.calls[1].how = "sync"
          /\ Len(last.disp) = (IF last.calls[1].cb.kind = "again" THEN 1 ELSE 0)
          /\ \A i \in DOMAIN LastReq._onOk : LastReq._onOk[i].id # last.ncb0 + 1
    /\ (last.op = "fail" /\ last.pre._err # undefined) =>
          /\ Len(last.calls) = 1
          /\ last.calls[1].cb.id = last.ncb0 + 1
          /\ last.calls[1].args = <<last.pre._err>>
          /\ last.calls[1].how = "sync"
          /\ Len(last.disp) = (IF last.calls[1].cb.kind = "again" THEN 1 ELSE 0)
          /\ \A i \in DOMAIN LastReq._onErr : LastReq._onErr[i].id # last.ncb0 + 1
    /\ (last.op = "resolve" /\ last.exec = LatestExec(sent, last.req)) =>
          LastReq._res = ResultOf(last.exec)
    /\ (last.op = "reject" /\ last.exec = LatestExec(sent, last.req)) =>
          LastReq._err = NormalizeError(last.arg.o)

\* ok(cb) was called on a request holding a result, and cb was called
C2_Witness ==
    /\ last.op = "ok"
    /\ last.pre._res # undefined
    /\ Len(last.calls) = 1
    /\ last.disp = <<>>

----------------------------------------------------------------------------
(* C3 *)

\* a callback handed to ok() after an again() that was called when every
\* earlier transport call of the request had settled
AfterSoloAgain(cb) ==
    cb.on = "ok" /\ cb.solo /\ cb.exec # FirstExec(sent, last.req)

\* C3: again() on a request whose earlier transport calls have all settled
\* issues exactly one transport call, with the stored configuration; a
\* callback handed to ok() after that again() is never called with an
\* earlier result: it is called only with the result of the new call, and
\* from the queue only when that call resolves.
C3_AgainRefetches ==
    /\ (last.op = "again" /\ InFlightOf(Machine, last.req) \ {last.disp[1]} = {}) =>
          /\ Len(last.disp) = 1
          /\ sent[last.disp[1]].config = ConfigOf(last.req)
          /\ sent[last.disp[1]].config = sent[FirstExec(sent, last.req)].config
          /\ last.calls = <<>>
    /\ \A i \in DOMAIN last.calls :
          AfterSoloAgain(last.calls[i].cb) =>
              /\ last.calls[i].args = ResultOf(last.calls[i].cb.exec)
              /\ last.calls[i].how = "queued" =>
                    last.op = "resolve" /\ last.exec = last.calls[i].cb.exec

\* the call issued by again() resolved and a callback handed over after that
\* again() was called from the queue
C3_Witness ==
    /\ last.op = "resolve"
    /\ last.exec # FirstExec(sent, last.req)
    /\ \E i \in DOMAIN last.calls :
          /\ AfterSoloAgain(last.calls[i].cb)
          /\ last.calls[i].how = "queued"

----------------------------------------------------------------------------
(* C4 *)

\* C4: a request never holds a result and an error at once, and holds
\* neither when again() returns.
C4_AtMostOneOutcome ==
    /\ \A r \in DOMAIN reqs : reqs[r]._res = undefined \/ reqs[r]._err = undefined
    /\ last.op = "again" => LastReq._res = undefined /\ LastReq._err = undefined

----------------------------------------------------------------------------
(* C5 *)

IsPrefix(p, q) == Len(p) <= Len(q) /\ p = SubSeq(q, 1, Len(p))

\* C5: when the transport settles, the queued callbacks that are called are
\* called in the order they were handed over, each with the same stored
\* result (or error) of that transport call, and all of them are called when
\* none throws; the queue holds them in the order they were handed over.  A
\* callback handed over after the transport settled is called with the
\* stored result (or error) too.
C5_InOrderSameResult ==
    /\ \A r \in DOMAIN reqs :
          /\ \A i, j \in DOMAIN reqs[r]._onOk :
                i < j => reqs[r]._onOk[i].id < reqs[r]._onOk[j].id
          /\ \A i, j \in DOMAIN reqs[r]._onErr :
                i < j => reqs[r]._onErr[i].id < reqs[r]._onErr[j].id
    /\ last.op = "resolve" =>
          /\ IsPrefix(CalledCbs(last.calls), last.pre._onOk)
          /\ \A i \in DOMAIN last.calls :
                last.calls[i].how = "queued" /\ last.calls[i].args = ResultOf(last.exec)
          /\ (\A i \in DOMAIN last.pre._onOk : last.pre._onOk[i].kind # "throws") =>
                Len(last.calls) = Len(last.pre._onOk)
    /\ last.op = "reject" =>
          /\ IsPrefix(CalledCbs(last.calls), last.pre._onErr)
          /\ \A i \in DOMAIN last.calls :
                last.calls[i].how = "queued"
                /\ last.calls[i].args = <<NormalizeError(last.arg.o)>>
          /\ (\A i \in DOMAIN last.pre._onErr : last.pre._onErr[i].kind # "throws") =>
                Len(last.calls) = Len(last.pre._onErr)
    /\ last.op = "ok" =>
          \A i \in DOMAIN last.calls :
              last.calls[i].how = "sync" => last.calls[i].args = last.pre._res
    /\ last.op = "fail" =>
          \A i \in DOMAIN last.calls :
              last.calls[i].how = "sync" => last.calls[i].args = <<last.pre._err>>

\* a transport call resolved and two queued callbacks were called
C5_Witness ==
    /\ last.op = "resolve"
    /\ Len(last.calls) >= 2

----------------------------------------------------------------------------
(* C6 *)

\* a callback called by the last operation threw, and none called again()
SomeCallThrew ==
    /\ \E i \in DOMAIN last.calls : last.calls[i].cb.kind = "throws"
    /\ \A i \in DOMAIN last.calls : last.calls[i].cb.kind # "again"

\* C6: if a queued callback throws while a settled transport call is
\* delivered, the result or error stays stored, the drained queue is
\* cleared, and the "ok" or "fail" message is still notified (to the
\* observable the request holds).
C6_ThrowLeavesRequestConsistent ==
    /\ (last.op = "resolve" /\ SomeCallThrew) =>
          /\ LastReq._res = ResultOf(last.exec)
          /\ LastReq._onOk = <<>>
          /\ Truthy(LastReq._observable) => Delivered("ok")
    /\ (last.op = "reject" /\ SomeCallThrew) =>
          /\ LastReq._err = NormalizeError(last.arg.o)
          /\ LastReq._onErr = <<>>
          /\ Truthy(LastReq._observable) => Delivered("fail")

----------------------------------------------------------------------------
(* C7 *)

\* C7: when the transport settles, every callback queued for that outcome
\* is called, also those queued after one that throws.
C7_EveryQueuedCallbackIsCalled ==
    /\ last.op = "resolve" => CalledCbs(QueuedCalls) = last.pre._onOk
    /\ last.op = "reject" => CalledCbs(QueuedCalls) = last.pre._onErr

----------------------------------------------------------------------------
(* C8 *)

\* the callbacks handed over while the last operation ran
HandedOverSince(queue) == {i \in DOMAIN queue : queue[i].id > last.ncb0}

\* C8: when a success callback being delivered calls again() on its request
\* and hands over cb2 with ok(cb2), every callback of the queue being drained
\* is still called with the old result, and cb2 stays queued for the call
\* that again() issued.
C8_ReentrantAgainKeepsNewCallback ==
    (last.op = "resolve" /\ \E i \in DOMAIN last.calls : last.calls[i].cb.kind = "again") =>
        /\ \A i \in DOMAIN last.calls : last.calls[i].args = ResultOf(last.exec)
        /\ \E i \in HandedOverSince(LastReq._onOk) :
              /\ LastReq._onOk[i].exec = LatestExec(sent, last.req)
              /\ LastReq._onOk[i].exec \in last.disp

----------------------------------------------------------------------------
(* C9 *)

\* the headers of a configuration
HeadersOf(config) == config["headers"].o

\* the headers the caller gave to the last operation, if it built a request
CallerHeaders ==
    IF last.arg.t = "object" /\ "headers" \in DOMAIN last.arg.o
    THEN last.arg.o["headers"].o
    ELSE EmptyObject

BuildOps == {"http", "get", "post", "put", "delete"}

\* C9: the configuration of a request is fixed when the endpoint call
\* returns: every transport call of the request, the first and those of
\* again(), carries the configuration of its first call, which is the one
\* the request holds, whatever headers() and authorization became since; a
\* request built now carries the global headers as they are now.
C9_ConfigFixedAtConstruction ==
    /\ \A e \in DOMAIN sent :
          /\ sent[e].config = sent[FirstExec(sent, sent[e].req)].config
          /\ sent[e].config = ConfigOf(sent[e].req)
    /\ last.op \in BuildOps =>
          \A k \in DOMAIN _headers \ (DOMAIN CallerHeaders \cup {"X-Requested-With"}) :
              GetProp(HeadersOf(ConfigOf(last.req)), k) = _headers[k]

----------------------------------------------------------------------------
(* C10 *)

\* the Authorization header precedence: the caller's header, else the global
\* header, else the authorization field, else none
ExpectedAuthorization(caller, global, auth) ==
    IF "Authorization" \in DOMAIN caller THEN caller["Authorization"]
    ELSE IF "Authorization" \in DOMAIN global THEN global["Authorization"]
    ELSE IF auth \notin {undefined, null} THEN auth
    ELSE undefined

\* C10: the Authorization header of a configuration built by an endpoint
\* call is the header the caller gave, else the global Authorization header
\* set with headers(), else the client's authorization field; with none of
\* the three the configuration has no Authorization header.
C10_AuthorizationPrecedence ==
    last.op \in BuildOps =>
        LET dispatched == HeadersOf(sent[last.disp[1]].config)
            expected == ExpectedAuthorization(CallerHeaders, _headers, authorization)
        IN  /\ GetProp(dispatched, "Authorization") = expected
            /\ expected = undefined => "Authorization" \notin DOMAIN dispatched

\* a call gave its own Authorization header while the global header and the
\* authorization field were both set
C10_Witness ==
    /\ last.op = "http"
    /\ "Authorization" \in DOMAIN CallerHeaders
    /\ "Authorization" \in DOMAIN _headers
    /\ authorization = Str("Bearer X")
    /\ GetProp(HeadersOf(sent[last.disp[1]].config), "Authorization") = Str("abc")

----------------------------------------------------------------------------
(* C11 *)

\* the value last written under key k by headers(map), given what was there
LastWritten(before, map, k) == IF k \in DOMAIN map THEN map[k] ELSE before[k]

\* the header keys an endpoint call may send: the caller's, the global ones,
\* the forced one, and Authorization when the authorization field is set
SendableKeys ==
    DOMAIN CallerHeaders \cup DOMAIN _headers \cup {"X-Requested-With"}
        \cup (IF Truthy(authorization) THEN {"Authorization"} ELSE {})

\* C11: the global headers never hold a null or undefined value; after
\* headers(map) every key holds the value last written to it, and a key
\* whose last written value is null or undefined is absent; a request built
\* afterwards carries no header key that neither the caller, nor the global
\* headers, nor the library's own two headers supply.
C11_HeadersLastWriteWins ==
    /\ \A k \in DOMAIN _headers : _headers[k].t \notin {"undefined", "null"}
    /\ last.op = "headers" =>
          LET before == last.api0._headers
              map == last.arg.map
          IN  /\ DOMAIN _headers \subseteq DOMAIN before \cup DOMAIN map
              /\ \A k \in DOMAIN before \cup DOMAIN map :
                    IF LastWritten(before, map, k).t \in {"undefined", "null"}
                    THEN k \notin DOMAIN _headers
                    ELSE k \in DOMAIN _headers /\ _headers[k] = LastWritten(before, map, k)
    /\ last.op \in BuildOps =>
          DOMAIN HeadersOf(sent[last.disp[1]].config) \subseteq SendableKeys

\* headers({K: null}) was called when K was set, and K is gone
C11_Witness ==
    /\ last.op = "headers"
    /\ \E k \in DOMAIN last.arg.map :
          /\ last.arg.map[k] = null
          /\ k \in DOMAIN last.api0._headers
          /\ k \notin DOMAIN _headers

----------------------------------------------------------------------------
(* C12 *)

\* C12: an endpoint call leaves the client's global headers as they were,
\* and in the headers it sends a header the caller gave has the caller's
\* value, whatever the global header of that key (X-Requested-With, which
\* the library forces, aside).
C12_HttpLeavesGlobalHeaders ==
    last.op \in BuildOps =>
        /\ _headers = last.api0._headers
        /\ \A k \in DOMAIN CallerHeaders \ {"X-Requested-With"} :
              GetProp(HeadersOf(sent[last.disp[1]].config), k) = CallerHeaders[k]

\* http() was given a header that is also a global header, with another
\* value, and the authorization field was injected
C12_Witness ==
    /\ last.op = "http"
    /\ \E k \in (DOMAIN CallerHeaders \cap DOMAIN _headers) \ {"X-Requested-With"} :
          CallerHeaders[k] # _headers[k]
    /\ "Authorization" \notin DOMAIN CallerHeaders \cup DOMAIN _headers
    /\ GetProp(HeadersOf(sent[last.disp[1]].config), "Authorization") = Str("Bearer X")

----------------------------------------------------------------------------
(* C13 *)

\* C13: endpoints(list) with names that are all registered already changes
\* nothing: the registered names are the same, and every accessor is there
\* as before and yields the endpoint object it yielded before.
C13_ReRegisteringIsNoOp ==
    (last.op = "endpoints" /\ Range(last.arg.list) \subseteq Range(last.api0._endpoints)) =>
        /\ _endpoints = last.api0._endpoints
        /\ props = last.api0.props

----------------------------------------------------------------------------
(* C14 *)

\* the keys of the names of a list are pairwise distinct
DistinctKeys(list) ==
    \A i, j \in DOMAIN list : CamelCase(list[i]) = CamelCase(list[j]) => i = j

\* C14: after endpoints(list), with names of pairwise distinct keys, the
\* client has under the camelCase key of every name an endpoint whose name
\* is that name and whose URL is the base URL, the name and "/"; the base
\* URL ends in exactly one "/".
C14_AccessorPerName ==
    /\ url[Len(url)] = Slash /\ url[Len(url) - 1] # Slash
    /\ (last.op = "endpoints" /\ DistinctKeys(last.arg.list)) =>
          \A i \in DOMAIN last.arg.list :
              LET name == last.arg.list[i]
                  value == ThisProp(props, CamelCase(name))
              IN  /\ CamelCase(name) \in DOMAIN props
                  /\ value.name = Chars(name)
                  /\ value._url = Chars(url \o name \o <<Slash>>)

----------------------------------------------------------------------------
(* C15 *)

\* the first registered name that has this key
FirstNamed(key) ==
    _endpoints[CHOOSE i \in DOMAIN _endpoints :
                  /\ CamelCase(_endpoints[i]) = key
                  /\ \A j \in 1..(i - 1) : CamelCase(_endpoints[j]) # key]

\* C15: the accessor under a key yields the endpoint of the first registered
\* name that has this key, whatever names of the same key came after.
C15_FirstRegisteredWins ==
    \A key \in DOMAIN props : props[key].name = Chars(FirstNamed(key))

----------------------------------------------------------------------------
(* C16 *)

\* the configuration the last operation dispatched
Dispatched == sent[last.disp[1]].config

\* the resolved URL of the endpoint the last operation was called on
ResolvedUrl == url \o Dispatched["endpoint"].c \o <<Slash>>

\* a configuration carries no query parameters
NoParams(config) == GetProp(config, "params") \in {undefined, null}

\* C16: post(a) and put(a) send a as the body, to the endpoint's URL, with
\* no query parameters; post(q, d) and put(q, d) send d as the body,
\* whatever d is (an empty string too), and apply q: as the query parameters
\* when it is an object, appended to the URL otherwise.  Nothing is said
\* here of a second argument that is null.
C16_PostPutArguments ==
    (last.op \in {"post", "put"} /\ last.arg.d # null) =>
        LET a == last.arg.a
            d == last.arg.d
        IN  IF d = undefined
            THEN /\ Dispatched["data"] = a
                 /\ Dispatched["url"] = Chars(ResolvedUrl)
                 /\ NoParams(Dispatched)
            ELSE /\ Dispatched["data"] = d
                 /\ IF a.t = "object"
                    THEN /\ GetProp(Dispatched, "params") = a
                         /\ Dispatched["url"] = Chars(ResolvedUrl)
                    ELSE /\ Dispatched["url"] = Chars(ResolvedUrl \o a.c)
                         /\ NoParams(Dispatched)

----------------------------------------------------------------------------
(* C17 *)

\* two values of the query parameters that say the same to the transport
SameParams(p, g) == p = g \/ (p \in {undefined, null} /\ g \in {undefined, null})

\* C17: http(cfg, q) sends to the endpoint's URL, whatever cfg.url: with q
\* an object, q is the query parameters and the URL is the endpoint's; with
\* q a string, q is appended to the URL and the query parameters are those
\* of cfg; with no q (none, or null), the URL is the endpoint's and the
\* query parameters are those of cfg.
C17_HttpQueryResolution ==
    last.op = "http" =>
        LET q == last.arg.q
            given == GetProp(last.arg.o, "params")
        IN  IF q \in {undefined, null}
            THEN /\ Dispatched["url"] = Chars(ResolvedUrl)
                 /\ SameParams(GetProp(Dispatched, "params"), given)
            ELSE IF q.t = "object"
            THEN /\ Dispatched["url"] = Chars(ResolvedUrl)
                 /\ GetProp(Dispatched, "params") = q
            ELSE /\ Dispatched["url"] = Chars(ResolvedUrl \o q.c)
                 /\ SameParams(GetProp(Dispatched, "params"), given)

----------------------------------------------------------------------------
(* C18 *)

\* the error a caller is to see for what the transport rejected with
NormalizedShape(e) ==
    IF e.response = undefined
    THEN [message |-> IF e.message.s # "" THEN e.message ELSE Str("Network Error")]
    ELSE [message |-> IF e.response.statusText.s # "" THEN e.response.statusText
                      ELSE Str("Error"),
          status |-> e.response.status,
          data |-> e.response.data,
          headers |-> e.response.headers]

----------------------------------------------------------------------------
(* C19 *)

\* C19: when an observer is handed the "pending" message of again(), the
\* request holds no result and no error and its two queues are empty, so
\* that a callback the observer hands to ok()/fail() is queued for the new
\* transport call.
C19_ClearedBeforePending ==
    last.op = "again" =>
        \A i \in DOMAIN last.msgs :
            (last.msgs[i].msg.status = "pending" /\ last.msgs[i].to # {}) =>
                /\ last.msgs[i].at._res = undefined
                /\ last.msgs[i].at._err = undefined
                /\ last.msgs[i].at._onOk = <<>>
                /\ last.msgs[i].at._onErr = <<>>

----------------------------------------------------------------------------
(* C20 *)

\* a callback handed over after an again()
AfterAgain(cb) == cb.exec # FirstExec(sent, last.req)

\* C20: a callback handed over after again() gets only the outcome of the
\* transport call that again() issued, also when an earlier call was still
\* in flight: it is called from the queue only when that call settles, and
\* ok() calls it at once only with that call's result; and an earlier call
\* that settles after the latest one leaves the stored outcome as it is.
C20_EarlierCallIsIgnored ==
    /\ \A i \in DOMAIN last.calls :
          AfterAgain(last.calls[i].cb) =>
              /\ last.calls[i].how = "queued" => last.exec = last.calls[i].cb.exec
              /\ last.calls[i].cb.on = "ok" =>
                    last.calls[i].args = ResultOf(last.calls[i].cb.exec)
    /\ (/\ last.op \in {"resolve", "reject"}
        /\ last.disp = <<>>
        /\ last.exec # LatestExec(sent, last.req)
        /\ LatestExec(sent, last.req) \notin inflight) =>
          /\ LastReq._res = last.pre._res
          /\ LastReq._err = last.pre._err

----------------------------------------------------------------------------
(* C21 *)

\* C21: when a transport call resolves, the failure path does not run for
\* it, also when a success callback or a callback subscribed to the client
\* throws while the success is handled: no error is stored, no callback
\* handed to fail() is called and no "fail" message is notified.
C21_SuccessNeverRunsFailurePath ==
    last.op = "resolve" =>
        /\ last.pre._err = undefined => LastReq._err = undefined
        /\ \A i \in DOMAIN last.calls : last.calls[i].cb.on # "fail"
        /\ \A i \in DOMAIN last.msgs : last.msgs[i].msg.status # "fail"

----------------------------------------------------------------------------
(* C22 *)

\* the transport calls of the last operation's request that were issued
\* before the last operation
IssuedBefore == {e \in ExecsOf(sent, last.req) : \A i \in DOMAIN last.disp : last.disp[i] # e}

\* C22: no callback handed to ok() or fail() is called a second time, and
\* a settlement calls no callback from the queue that was handed over
\* before an again() that came before the settlement.  (The callbacks of
\* the queue a settlement is walking when one of them calls again() are
\* not counted as queued at that again().)
C22_CalledAtMostOnce ==
    \A i \in DOMAIN last.calls :
        /\ last.calls[i].cb.called = 0
        /\ last.calls[i].how = "queued" =>
              \A e \in IssuedBefore : e <= last.calls[i].cb.exec

====
